---- MODULE Spec2Model ----
(***************************************************************************)
(* External k-way merge sort (Rastocka_mergesort.py).                      *)
(*                                                                         *)
(* The model follows external_merge_sort step by step: run generation      *)
(* (read_numbers_and_divide, generate_runs, create_run_file), the block    *)
(* reader (read_blocks), the k-way merger (merge_K_runs) and the merge     *)
(* scheduler (merge_runs).  Files are sequences of characters, so that     *)
(* the textual encoding of the records and the byte-bounded block reads    *)
(* are part of the model.                                                  *)
(***************************************************************************)
EXTENDS Integers, Sequences, FiniteSets, Bags, TLC

(***************************************************************************)
(* Bounds of the model.                                                    *)
(***************************************************************************)
\* longest input file, in lines
MaxLen == 4
\* last merge pass the model follows (the pass counter is unbounded in the code)
MaxIter == 3

(***************************************************************************)
(* Characters and the textual encoding of records.                         *)
(***************************************************************************)
NL == "\n"

Digits == <<"0", "1", "2", "3", "4", "5", "6", "7", "8", "9">>

IsDigit(c) == \E d \in 1..10 : Digits[d] = c

DigitValue(c) == (CHOOSE d \in 1..10 : Digits[d] = c) - 1

Min(a, b) == IF a <= b THEN a ELSE b

\* str(n) for n >= 0
RECURSIVE NatToStr(_)
NatToStr(n) ==
    IF n < 10 THEN <<Digits[n + 1]>>
    ELSE NatToStr(n \div 10) \o <<Digits[(n % 10) + 1]>>

\* f"{number}"
IntToStr(n) == IF n < 0 THEN <<"-">> \o NatToStr(0 - n) ELSE NatToStr(n)

\* f"{number}\n", the serialized form of one record
FormatLine(n) == IntToStr(n) \o <<NL>>

IsSpace(c) == c = NL \/ c = " "

\* str.strip()
RECURSIVE Strip(_)
Strip(s) ==
    IF s = <<>> THEN <<>>
    ELSE IF IsSpace(Head(s)) THEN Strip(Tail(s))
    ELSE IF IsSpace(s[Len(s)]) THEN Strip(SubSeq(s, 1, Len(s) - 1))
    ELSE s

AllDigits(s) == s # <<>> /\ \A p \in 1..Len(s) : IsDigit(s[p])

\* int(s) succeeds (otherwise it raises ValueError)
IsInt(s) ==
    LET t == Strip(s) IN
    /\ t # <<>>
    /\ IF Head(t) = "-" \/ Head(t) = "+" THEN AllDigits(Tail(t)) ELSE AllDigits(t)

RECURSIVE StrToNat(_)
StrToNat(s) ==
    IF s = <<>> THEN 0
    ELSE 10 * StrToNat(SubSeq(s, 1, Len(s) - 1)) + DigitValue(s[Len(s)])

\* int(s), for s with IsInt(s)
ParseInt(s) ==
    LET t == Strip(s) IN
    IF Head(t) = "-" THEN 0 - StrToNat(Tail(t))
    ELSE IF Head(t) = "+" THEN StrToNat(Tail(t))
    ELSE StrToNat(t)

\* position (1-based) of the first newline of s, 0 if there is none
RECURSIVE FindNL(_, _)
FindNL(s, p) ==
    IF p > Len(s) THEN 0
    ELSE IF s[p] = NL THEN p
    ELSE FindNL(s, p + 1)

\* str.split("\n")
RECURSIVE Split(_)
Split(s) ==
    LET p == FindNL(s, 1) IN
    IF p = 0 THEN <<s>>
    ELSE <<SubSeq(s, 1, p - 1)>> \o Split(SubSeq(s, p + 1, Len(s)))

\* the lines of a block that are kept: "if line.strip()"
KeptLines(block) == SelectSeq(Split(block), LAMBDA l : Strip(l) # <<>>)

\* every kept line of the block converts with int()
BlockParses(block) == \A p \in 1..Len(KeptLines(block)) : IsInt(KeptLines(block)[p])

\* [int(line) for line in block.split("\n") if line.strip()]
DecodeBlock(block) ==
    LET kept == KeptLines(block) IN
    [p \in 1..Len(kept) |-> ParseInt(kept[p])]

(***************************************************************************)
(* list.sort() and the heap of heapq.                                      *)
(***************************************************************************)
RECURSIVE InsertSorted(_, _)
InsertSorted(x, s) ==
    IF s = <<>> THEN <<x>>
    ELSE IF x <= Head(s) THEN <<x>> \o s
    ELSE <<Head(s)>> \o InsertSorted(x, Tail(s))

\* a sort that leaves the run as it was read
ListSortNone(s) == s

\* run.sort()
RECURSIVE ListSort(_)
ListSort(s) == IF s = <<>> THEN <<>> ELSE InsertSorted(Head(s), ListSort(Tail(s)))

\* tuple comparison (value, run index) of the heap entries
EntryLess(a, b) == a[1] < b[1] \/ (a[1] = b[1] /\ a[2] < b[2])

\* a push that does not restore the heap order
HeapPushUnordered(h, e) == <<e>> \o h

\* heapq.heappush: the heap is kept as the ascending sequence of its entries
RECURSIVE HeapPush(_, _)
HeapPush(h, e) ==
    IF h = <<>> THEN <<e>>
    ELSE IF EntryLess(Head(h), e) THEN <<Head(h)>> \o HeapPush(Tail(h), e)
    ELSE <<e>> \o h

\* heapq.heappop returns the smallest entry
HeapMin(h) == Head(h)

\* a pop that reads the smallest entry and leaves it in the heap
HeapRestKeep(h) == h

HeapRest(h) == Tail(h)

(***************************************************************************)
(* read_blocks: one pass of the reader's loop over a file.                 *)
(***************************************************************************)
\* str.rfind("\n") as a 0-based index, -1 if there is no newline
RECURSIVE RFindNL(_, _)
RFindNL(s, p) ==
    IF p = 0 THEN 0 - 1
    ELSE IF s[p] = NL THEN p - 1
    ELSE RFindNL(s, p - 1)

\* file.read(block_size) at the cursor (0-based offset into the file)
RawRead(content, cursor, size) ==
    SubSeq(content, cursor + 1, Min(cursor + size, Len(content)))

\* a reader that does not seek back after a read that stopped inside a record
ReadBlockNoSeek(content, cursor, size) ==
    LET raw == RawRead(content, cursor, size)
        tell == cursor + Len(raw)
        last_newline == RFindNL(raw, Len(raw))
    IN  IF raw = <<>> THEN [eof |-> TRUE, block |-> <<>>, cursor |-> tell]
        ELSE IF raw[Len(raw)] # NL
             THEN [eof |-> FALSE,
                   block |-> SubSeq(raw, 1, last_newline + 1),
                   cursor |-> tell]
             ELSE [eof |-> FALSE, block |-> raw, cursor |-> tell]

\* a reader that reads the rest of the file at once: file.read()
ReadBlockWhole(content, cursor, size) ==
    LET raw == SubSeq(content, cursor + 1, Len(content)) IN
    IF raw = <<>> THEN [eof |-> TRUE, block |-> <<>>, cursor |-> cursor]
    ELSE [eof |-> FALSE, block |-> raw, cursor |-> Len(content)]

\* One iteration of the loop of read_blocks.  eof: the read returned nothing
\* and the generator ends; otherwise block is yielded and cursor is where
\* the next read starts.
ReadBlock(content, cursor, size) ==
    LET raw == RawRead(content, cursor, size)
        tell == cursor + Len(raw)
        last_newline == RFindNL(raw, Len(raw))
    IN  IF raw = <<>> THEN [eof |-> TRUE, block |-> <<>>, cursor |-> tell]
        ELSE IF raw[Len(raw)] # NL
             THEN [eof |-> FALSE,
                   block |-> SubSeq(raw, 1, last_newline + 1),
                   cursor |-> tell - (Len(raw) - last_newline - 1)]
             ELSE [eof |-> FALSE, block |-> raw, cursor |-> tell]

(***************************************************************************)
(* Run storage: file names and file contents.                              *)
(***************************************************************************)
\* f"run{run_number}.txt"
RunName(run_number) == <<"run", run_number>>

\* a merged run named by its batch alone, whatever the pass
MergedNameNoPass(it, batch) == <<"merged_run", 1, batch>>

\* f"merged_run_{iteration}_{batch}.txt"
MergedName(it, batch) == <<"merged_run", it, batch>>

\* the output destination external_merge_sort passes to merge_runs
OutputPath == <<"output2.txt">>

\* the text create_run_file writes for a run
RECURSIVE FileText(_)
FileText(numbers) ==
    IF numbers = <<>> THEN <<>>
    ELSE FormatLine(Head(numbers)) \o FileText(Tail(numbers))

\* open(name, 'w') followed by the writes: the file holds exactly text
WriteFile(files, name, text) ==
    [n \in (DOMAIN files) \cup {name} |-> IF n = name THEN text ELSE files[n]]

\* a removal that leaves the file in place
RemoveFileNothing(files, name) == files

\* os.remove(name)
RemoveFile(files, name) == [n \in (DOMAIN files) \ {name} |-> files[n]]

\* os.rename(src, dst)
RenameFile(files, src, dst) ==
    [n \in ((DOMAIN files) \ {src}) \cup {dst} |-> IF n = dst THEN files[src] ELSE files[n]]

(***************************************************************************)
(* Inputs.                                                                 *)
(***************************************************************************)
\* the lines an input file is made of; the last one is not an integer
InputLines ==
    { <<"7", NL>>, <<"1", "2", NL>>, <<"-", "3", NL>>, <<"x", NL>> }

\* memory_limit of external_merge_sort
MemoryLimits == {6, 240}

\* block_size of external_merge_sort
BlockSizes == {2, 3, 5, 120}

\* NUMBER_SIZE of read_numbers_and_divide
NUMBER_SIZE == 40

VARIABLES
    input,          \* the lines of the input file
    memory_limit,   \* external_merge_sort's memory_limit
    block_size,     \* external_merge_sort's block_size
    pc,             \* where the program is
    err,            \* the exception that ended the program, "none" otherwise
    fs,             \* the files of the working directory: name -> text
    pos,            \* read_numbers_and_divide: lines of the input consumed
    run,            \* read_numbers_and_divide: the run being filled
    current_bytes,  \* read_numbers_and_divide: accounted size of run
    index,          \* generate_runs: number of the next run file
    runs,           \* generate_runs / merge_runs: the frontier, a list of names
    iteration,      \* merge_runs: number of the pass
    i,              \* merge_runs: start of the current batch in runs
    new_runs,       \* merge_runs: the outputs of the pass so far
    run_files,      \* merge_K_runs: the batch
    readers,        \* merge_K_runs: cursor of the reader of each run
    current_blocks, \* merge_K_runs: decoded records in memory, per run
    heap,           \* merge_K_runs: the heap of (record, run index)
    reader_index,   \* merge_K_runs: position of the seeding loop
    removed         \* merge_runs: runs of the old frontier removed so far

vars == <<input, memory_limit, block_size, pc, err, fs, pos, run, current_bytes,
          index, runs, iteration, i, new_runs, run_files, readers,
          current_blocks, heap, reader_index, removed>>

config == <<input, memory_limit, block_size>>

genVars == <<pos, run, current_bytes, index>>

passVars == <<iteration, i, new_runs, removed>>

mergeVars == <<run_files, readers, current_blocks, heap, reader_index>>

\* first_limit of external_merge_sort
first_limit == memory_limit \div 3

\* K of merge_runs
K == memory_limit \div block_size

Inputs == UNION { [1..n -> InputLines] : n \in 0..MaxLen }

Init ==
    /\ input \in Inputs
    /\ memory_limit \in MemoryLimits
    /\ block_size \in BlockSizes
    /\ pc = "generate_runs"
    /\ err = "none"
    /\ fs = <<>>
    /\ pos = 0
    /\ run = <<>>
    /\ current_bytes = 0
    /\ index = 1
    /\ runs = <<>>
    /\ iteration = 1
    /\ i = 0
    /\ new_runs = <<>>
    /\ run_files = <<>>
    /\ readers = <<>>
    /\ current_blocks = <<>>
    /\ heap = <<>>
    /\ reader_index = 0
    /\ removed = 0

\* an exception leaves the program: nothing catches it
Raise(e) == pc' = "failed" /\ err' = e

(***************************************************************************)
(* Run generation: read_numbers_and_divide driven by generate_runs.        *)
(***************************************************************************)
\* a budget check that forgets the size of the record about to be added
MustYieldLate == current_bytes > first_limit /\ run # <<>>

\* the budget check of read_numbers_and_divide before a line is appended
MustYield == current_bytes + NUMBER_SIZE > first_limit /\ run # <<>>

\* a generator that skips a line that does not convert and reads on
ReadLineSkip ==
    /\ pc = "generate_runs"
    /\ pos < Len(input)
    /\ LET line == input[pos + 1]
           kept == IF MustYield THEN <<>> ELSE run
           bytes == IF MustYield THEN 0 ELSE current_bytes
       IN  /\ IF MustYield
              THEN /\ fs' = WriteFile(fs, RunName(index), FileText(ListSort(run)))
                   /\ runs' = Append(runs, RunName(index))
                   /\ index' = index + 1
              ELSE UNCHANGED <<fs, runs, index>>
           /\ IF IsInt(line)
              THEN /\ run' = Append(kept, ParseInt(line))
                   /\ current_bytes' = bytes + NUMBER_SIZE
              ELSE /\ run' = kept
                   /\ current_bytes' = bytes
           /\ pos' = pos + 1
           /\ UNCHANGED <<pc, err>>
    /\ UNCHANGED <<config, passVars, mergeVars>>

\* One line of the input: the generator yields the full run first (which
\* generate_runs sorts and persists), then converts and appends the line.
ReadLine ==
    /\ pc = "generate_runs"
    /\ pos < Len(input)
    /\ LET line == input[pos + 1]
           kept == IF MustYield THEN <<>> ELSE run
           bytes == IF MustYield THEN 0 ELSE current_bytes
       IN  /\ IF MustYield
              THEN /\ fs' = WriteFile(fs, RunName(index), FileText(ListSort(run)))
                   /\ runs' = Append(runs, RunName(index))
                   /\ index' = index + 1
              ELSE UNCHANGED <<fs, runs, index>>
           /\ IF IsInt(line)
              THEN /\ run' = Append(kept, ParseInt(line))
                   /\ current_bytes' = bytes + NUMBER_SIZE
                   /\ pos' = pos + 1
                   /\ UNCHANGED <<pc, err>>
              ELSE /\ Raise("ValueError")
                   /\ run' = kept
                   /\ current_bytes' = bytes
                   /\ pos' = pos + 1
    /\ UNCHANGED <<config, passVars, mergeVars>>

\* End of the input: the remainder is yielded, generate_runs returns and
\* external_merge_sort calls merge_runs.
EndOfInput ==
    /\ pc = "generate_runs"
    /\ pos = Len(input)
    /\ IF run # <<>>
       THEN /\ fs' = WriteFile(fs, RunName(index), FileText(ListSort(run)))
            /\ runs' = Append(runs, RunName(index))
            /\ index' = index + 1
            /\ run' = ListSort(run)
       ELSE UNCHANGED <<fs, runs, index, run>>
    /\ pc' = "merge_runs"
    /\ iteration' = 1
    /\ UNCHANGED <<config, err, pos, current_bytes, i, new_runs, removed, mergeVars>>

(***************************************************************************)
(* merge_runs: the merge scheduler.                                        *)
(***************************************************************************)
\* a slice one run short: runs[i:i + K - 1]
BatchShort(list, start, fanin) ==
    SubSeq(list, start + 1, Min(start + fanin - 1, Len(list)))

\* a slice one run long: runs[i:i + K + 1]
BatchLong(list, start, fanin) ==
    SubSeq(list, start + 1, Min(start + fanin + 1, Len(list)))

\* runs[i:i + K]
Batch(list, start, fanin) == SubSeq(list, start + 1, Min(start + fanin, Len(list)))

\* a merger that writes straight to the output destination
output_fileDirect == OutputPath

\* the name merge_K_runs gives its output for identifier f"{iteration}_{i // K + 1}"
output_file == MergedName(iteration, (i \div K) + 1)

\* a pass that also starts on a single run: "while len(runs) >= 1"
StartPassSingle ==
    /\ pc = "merge_runs"
    /\ Len(runs) >= 1
    /\ iteration <= MaxIter
    /\ new_runs' = <<>>
    /\ IF K = 0
       THEN Raise("ValueError") /\ UNCHANGED i
       ELSE pc' = "for_batch" /\ i' = 0 /\ UNCHANGED err
    /\ UNCHANGED <<config, fs, genVars, runs, iteration, removed, mergeVars>>

\* "while len(runs) > 1" holds: a pass starts.  range(0, len(runs), K)
\* raises ValueError when K is 0.
StartPass ==
    /\ pc = "merge_runs"
    /\ Len(runs) > 1
    /\ iteration <= MaxIter
    /\ new_runs' = <<>>
    /\ IF K = 0
       THEN Raise("ValueError") /\ UNCHANGED i
       ELSE pc' = "for_batch" /\ i' = 0 /\ UNCHANGED err
    /\ UNCHANGED <<config, fs, genVars, runs, iteration, removed, mergeVars>>

\* "while len(runs) > 1" fails: os.rename(runs[0], output_file_path).
\* runs[0] raises IndexError when the list is empty.
Finish ==
    /\ pc = "merge_runs"
    /\ Len(runs) <= 1
    /\ IF runs = <<>>
       THEN Raise("IndexError") /\ UNCHANGED fs
       ELSE IF runs[1] \notin DOMAIN fs
            THEN Raise("OSError") /\ UNCHANGED fs
            ELSE /\ fs' = RenameFile(fs, runs[1], OutputPath)
                 /\ pc' = "DONE"
                 /\ UNCHANGED err
    /\ UNCHANGED <<config, genVars, runs, passVars, mergeVars>>

\* the next batch of the pass: merge_K_runs is called and creates its readers
CallMerge ==
    /\ pc = "for_batch"
    /\ i < Len(runs)
    /\ run_files' = Batch(runs, i, K)
    /\ readers' = [r \in 1..Len(Batch(runs, i, K)) |-> 0]
    /\ heap' = <<>>
    /\ current_blocks' = <<>>
    /\ reader_index' = 0
    /\ pc' = "seed"
    /\ UNCHANGED <<config, err, fs, genVars, runs, passVars>>

\* a removal loop that sits inside the batch loop: it runs after the first batch
EndBatchesEarly ==
    /\ pc = "for_batch"
    /\ i > 0
    /\ removed' = 0
    /\ pc' = "os_remove"
    /\ UNCHANGED <<config, err, fs, genVars, runs, iteration, i, new_runs, mergeVars>>

\* the batches of the pass are done: the old frontier is removed next
EndBatches ==
    /\ pc = "for_batch"
    /\ i >= Len(runs)
    /\ removed' = 0
    /\ pc' = "os_remove"
    /\ UNCHANGED <<config, err, fs, genVars, runs, iteration, i, new_runs, mergeVars>>

\* os.remove(run) for the next run of the old frontier
RemoveRun ==
    /\ pc = "os_remove"
    /\ removed < Len(runs)
    /\ IF runs[removed + 1] \in DOMAIN fs
       THEN /\ fs' = RemoveFile(fs, runs[removed + 1])
            /\ removed' = removed + 1
            /\ UNCHANGED <<pc, err>>
       ELSE Raise("OSError") /\ UNCHANGED <<fs, removed>>
    /\ UNCHANGED <<config, genVars, runs, iteration, i, new_runs, mergeVars>>

\* iteration += 1; runs = new_runs
EndPass ==
    /\ pc = "os_remove"
    /\ removed = Len(runs)
    /\ iteration' = iteration + 1
    /\ runs' = new_runs
    /\ pc' = "merge_runs"
    /\ UNCHANGED <<config, err, fs, genVars, i, new_runs, removed, mergeVars>>

(***************************************************************************)
(* merge_K_runs: the k-way merger.                                         *)
(***************************************************************************)
\* next(reader) of run r (1-based) of the batch
Pull(r) == ReadBlock(fs[run_files[r]], readers[r], block_size)

\* The seeding loop, for one reader: the first block is decoded and its
\* first record pushed.  pop(0) raises IndexError on an empty list.
Seed ==
    /\ pc = "seed"
    /\ reader_index < Len(run_files)
    /\ LET r == reader_index + 1 IN
       IF run_files[r] \notin DOMAIN fs
       THEN Raise("OSError") /\ UNCHANGED mergeVars
       ELSE LET got == Pull(r) IN
            IF got.eof
            THEN Raise("StopIteration") /\ UNCHANGED mergeVars
            ELSE IF ~BlockParses(got.block)
            THEN Raise("ValueError") /\ UNCHANGED mergeVars
            ELSE LET lines == DecodeBlock(got.block) IN
                 /\ readers' = [readers EXCEPT ![r] = got.cursor]
                 /\ IF lines = <<>>
                    THEN /\ Raise("IndexError")
                         /\ current_blocks' = Append(current_blocks, lines)
                         /\ UNCHANGED <<heap, reader_index>>
                    ELSE /\ current_blocks' = Append(current_blocks, Tail(lines))
                         /\ heap' = HeapPush(heap, <<Head(lines), reader_index>>)
                         /\ reader_index' = reader_index + 1
                         /\ UNCHANGED <<pc, err>>
                 /\ UNCHANGED run_files
    /\ UNCHANGED <<config, fs, genVars, runs, passVars>>

\* open(output_file, 'w')
OpenOutput ==
    /\ pc = "seed"
    /\ reader_index = Len(run_files)
    /\ fs' = WriteFile(fs, output_file, <<>>)
    /\ pc' = "heap_loop"
    /\ UNCHANGED <<config, err, genVars, runs, passVars, mergeVars>>

\* One iteration of "while heap": the smallest entry is written, and its run
\* gives the next entry, from its queue or from its next block.
MergeStep ==
    /\ pc = "heap_loop"
    /\ heap # <<>>
    /\ LET smallest == HeapMin(heap)[1]
           run_index == HeapMin(heap)[2]
           r == run_index + 1
           rest == HeapRest(heap)
       IN  /\ fs' = [fs EXCEPT ![output_file] = @ \o FormatLine(smallest)]
           /\ IF current_blocks[r] # <<>>
              THEN /\ heap' = HeapPush(rest, <<Head(current_blocks[r]), run_index>>)
                   /\ current_blocks' = [current_blocks EXCEPT ![r] = Tail(@)]
                   /\ UNCHANGED <<pc, err, readers>>
              ELSE LET got == Pull(r) IN
                   IF got.eof
                   THEN /\ heap' = rest
                        /\ UNCHANGED <<pc, err, readers, current_blocks>>
                   ELSE IF ~BlockParses(got.block)
                   THEN /\ Raise("ValueError")
                        /\ heap' = rest
                        /\ UNCHANGED <<readers, current_blocks>>
                   ELSE LET lines == DecodeBlock(got.block) IN
                        /\ readers' = [readers EXCEPT ![r] = got.cursor]
                        /\ IF lines = <<>>
                           THEN /\ Raise("IndexError")
                                /\ current_blocks' = [current_blocks EXCEPT ![r] = lines]
                                /\ heap' = rest
                           ELSE /\ current_blocks' = [current_blocks EXCEPT ![r] = Tail(lines)]
                                /\ heap' = HeapPush(rest, <<Head(lines), run_index>>)
                                /\ UNCHANGED <<pc, err>>
    /\ UNCHANGED <<config, genVars, runs, passVars, run_files, reader_index>>

\* a batch loop that steps by one run instead of K
ReturnMergedStepOne ==
    /\ pc = "heap_loop"
    /\ heap = <<>>
    /\ new_runs' = Append(new_runs, output_file)
    /\ i' = i + 1
    /\ run_files' = <<>>
    /\ pc' = "for_batch"
    /\ UNCHANGED <<config, err, fs, genVars, runs, iteration, removed,
                   readers, current_blocks, heap, reader_index>>

\* The heap is empty: the output is closed, merge_K_runs returns and
\* merge_runs appends the name to new_runs.
ReturnMerged ==
    /\ pc = "heap_loop"
    /\ heap = <<>>
    /\ new_runs' = Append(new_runs, output_file)
    /\ i' = i + K
    /\ run_files' = <<>>
    /\ pc' = "for_batch"
    /\ UNCHANGED <<config, err, fs, genVars, runs, iteration, removed,
                   readers, current_blocks, heap, reader_index>>

(***************************************************************************)
(* The storage collaborator may fail any operation; the exception is not   *)
(* caught anywhere.                                                        *)
(***************************************************************************)
StorageFailure ==
    /\ pc \notin {"DONE", "failed"}
    /\ Raise("OSError")
    /\ UNCHANGED <<config, fs, genVars, runs, passVars, mergeVars>>

\* the steps of the program itself
Step ==
    \/ ReadLine
    \/ EndOfInput
    \/ StartPass
    \/ Finish
    \/ CallMerge
    \/ EndBatches
    \/ RemoveRun
    \/ EndPass
    \/ Seed
    \/ OpenOutput
    \/ MergeStep
    \/ ReturnMerged

Next == Step \/ StorageFailure

Spec == Init /\ [][Next]_vars

\* the program runs on as long as it has a step to take
FairSpec == Init /\ [][Next]_vars /\ WF_vars(Step)

(***************************************************************************)
(* Vocabulary of the properties.                                           *)
(***************************************************************************)
\* the records a file holds, in order
FileRecords(text) == DecodeBlock(text)

NonDecreasing(s) == \A p \in 1..(Len(s) - 1) : s[p] <= s[p + 1]

SeqToBag(s) ==
    [v \in {s[p] : p \in DOMAIN s} |-> Cardinality({p \in DOMAIN s : s[p] = v})]

\* the records of the input, when every line of it converts
InputRecords == [p \in 1..Len(input) |-> ParseInt(input[p])]

\* the records of the files of a list of names, one file after the other
RECURSIVE RecordsOf(_)
RecordsOf(names) ==
    IF names = <<>> THEN <<>>
    ELSE FileRecords(fs[Head(names)]) \o RecordsOf(Tail(names))

IsRunFile(n) == n[1] = "run"

IsMergedFile(n) == n[1] = "merged_run"

\* length of the longest serialized record (digits and newline) of a file
LongestRecord(text) ==
    LET recs == FileRecords(text) IN
    IF recs = <<>> THEN 0
    ELSE CHOOSE m \in {Len(FormatLine(recs[p])) : p \in DOMAIN recs} :
            \A q \in DOMAIN recs : Len(FormatLine(recs[q])) <= m

\* Everything a reader yields for a file, read from cursor on: the raw
\* reads and the blocks, in order.  fuel bounds the number of reads;
\* ended tells whether the reader reached the end of the file within it.
RECURSIVE ReadAll(_, _, _, _)
ReadAll(text, cursor, size, fuel) ==
    LET got == ReadBlock(text, cursor, size) IN
    IF got.eof THEN [ended |-> TRUE, raws |-> <<>>, blocks |-> <<>>]
    ELSE IF fuel = 0 THEN [ended |-> FALSE, raws |-> <<>>, blocks |-> <<>>]
    ELSE LET more == ReadAll(text, got.cursor, size, fuel - 1) IN
         [ended |-> more.ended,
          raws |-> <<RawRead(text, cursor, size)>> \o more.raws,
          blocks |-> <<got.block>> \o more.blocks]

RECURSIVE Concat(_)
Concat(ss) == IF ss = <<>> THEN <<>> ELSE Head(ss) \o Concat(Tail(ss))

Merging == pc \in {"seed", "heap_loop"}

(***************************************************************************)
(* C1.  Whenever the sort completes, the output is non-decreasing; and     *)
(* every run on disk, the output of a merge included (also while it is     *)
(* being written), is non-decreasing.                                      *)
(***************************************************************************)
C1_OutputSorted ==
    /\ pc = "DONE" => NonDecreasing(FileRecords(fs[OutputPath]))
    /\ \A n \in DOMAIN fs : NonDecreasing(FileRecords(fs[n]))

\* a completed sort of three records given out of order, after two passes
C1_Witness ==
    /\ pc = "DONE"
    /\ iteration = 3
    /\ Len(FileRecords(fs[OutputPath])) = 3
    /\ ~NonDecreasing(InputRecords)

(***************************************************************************)
(* C2.  Whenever the sort completes on an input with at least one record,  *)
(* the multiset of the output records is the multiset of the input         *)
(* records; and between passes (after run generation and after every       *)
(* merge pass) the records of the frontier runs are that multiset.         *)
(***************************************************************************)
C2_Permutation ==
    /\ (pc = "DONE" /\ Len(input) >= 1) =>
            SeqToBag(FileRecords(fs[OutputPath])) = SeqToBag(InputRecords)
    /\ pc = "merge_runs" =>
            /\ \A k \in 1..Len(runs) : runs[k] \in DOMAIN fs
            /\ SeqToBag(RecordsOf(runs)) = SeqToBag(InputRecords)

\* a completed sort of an input that fills its runs exactly, with a
\* record that occurs twice, and that needed a merge
C2_Witness ==
    /\ pc = "DONE"
    /\ iteration > 1
    /\ Len(input) = 2 * (first_limit \div NUMBER_SIZE)
    /\ \E p, q \in DOMAIN input : p # q /\ input[p] = input[q]
    /\ \E p, q \in DOMAIN input : input[p] # input[q]

(***************************************************************************)
(* C3.  Once merge_runs holds more than one run, the pass loop reaches     *)
(* DONE, whatever the memory budget and the block size (an execution the   *)
(* storage fails, or that is still looping at the last pass the model      *)
(* follows, is not held against the claim).                                *)
(***************************************************************************)
C3_ReachesDone ==
    (pc = "merge_runs" /\ Len(runs) > 1)
        ~> (pc = "DONE" \/ err = "OSError" \/ iteration > MaxIter)

(***************************************************************************)
(* C4.  On an empty input the sort completes, with an empty result at the  *)
(* output destination, zero runs created and zero merge passes.            *)
(***************************************************************************)
C4_EmptyInput ==
    (input = <<>> /\ pc \in {"DONE", "failed"} /\ err # "OSError") =>
        /\ pc = "DONE"
        /\ OutputPath \in DOMAIN fs
        /\ fs[OutputPath] = <<>>
        /\ index = 1
        /\ iteration = 1

(***************************************************************************)
(* C5.  No call of merge_K_runs is given more than                         *)
(* memory_limit // block_size runs (nor an empty batch).                   *)
(***************************************************************************)
C5_FanIn ==
    Merging =>
        /\ Len(run_files) >= 1
        /\ Len(run_files) <= memory_limit \div block_size

\* a full batch that leaves runs of the frontier to a later batch
C5_Witness ==
    /\ Merging
    /\ Len(run_files) = memory_limit \div block_size
    /\ Len(run_files) > 1
    /\ Len(runs) > Len(run_files)

(***************************************************************************)
(* C6.  Every run persisted from read_numbers_and_divide is non-empty and  *)
(* its accounted size (records x NUMBER_SIZE) is at most the budget        *)
(* first_limit, unless it is a lone record that alone exceeds the budget.  *)
(***************************************************************************)
C6_RunSize ==
    \A n \in DOMAIN fs :
        IsRunFile(n) =>
            LET count == Len(FileRecords(fs[n])) IN
            /\ count >= 1
            /\ \/ count * NUMBER_SIZE <= first_limit
               \/ count = 1 /\ NUMBER_SIZE > first_limit

\* a run that fills the budget exactly, followed by another run
C6_Witness ==
    /\ RunName(1) \in DOMAIN fs
    /\ RunName(2) \in DOMAIN fs
    /\ Len(FileRecords(fs[RunName(1)])) * NUMBER_SIZE = first_limit

(***************************************************************************)
(* C7.  For every run file on disk (taken when no merge is writing) whose  *)
(* longest serialized record (digits and newline) fits the block size,     *)
(* read_blocks ends after finitely many blocks, every raw read is at most  *)
(* block_size characters, every block yielded is                           *)
(* non-empty and ends on a record boundary, and the blocks put together    *)
(* are the file and decode to its records; and a reader of a merge in      *)
(* progress always stands on a record boundary.                            *)
(***************************************************************************)
OnBoundary(text, cursor) ==
    /\ cursor \in 0..Len(text)
    /\ cursor = 0 \/ text[cursor] = NL

BlocksIntact(text, size) ==
    LET all == ReadAll(text, 0, size, Len(text) + 1) IN
    /\ all.ended
    /\ \A b \in 1..Len(all.raws) : Len(all.raws[b]) <= size
    /\ \A b \in 1..Len(all.blocks) :
            /\ all.blocks[b] # <<>>
            /\ all.blocks[b][Len(all.blocks[b])] = NL
    /\ Concat(all.blocks) = text
    /\ DecodeBlock(Concat(all.blocks)) = FileRecords(text)
    /\ Concat([b \in 1..Len(all.blocks) |-> FileText(DecodeBlock(all.blocks[b]))]) = text

C7_BlockIntegrity ==
    /\ pc \in {"generate_runs", "merge_runs", "for_batch"} =>
            \A n \in DOMAIN fs :
                LongestRecord(fs[n]) <= block_size => BlocksIntact(fs[n], block_size)
    /\ Merging =>
            \A r \in 1..Len(readers) :
                (run_files[r] \in DOMAIN fs /\ LongestRecord(fs[run_files[r]]) <= block_size)
                    => OnBoundary(fs[run_files[r]], readers[r])

\* a merge has read to its end a run of several blocks, one of whose raw
\* reads stopped inside a record
C7_Witness ==
    /\ pc = "heap_loop"
    /\ \E r \in 1..Len(readers) :
            LET text == fs[run_files[r]]
                all == ReadAll(text, 0, block_size, Len(text) + 1)
            IN  /\ LongestRecord(text) <= block_size
                /\ readers[r] = Len(text)
                /\ Len(all.blocks) >= 2
                /\ \E b \in 1..Len(all.raws) : all.raws[b][Len(all.raws[b])] # NL

(***************************************************************************)
(* C8.  A merge that fails at a record longer than the block size (the     *)
(* read at the reader's cursor holds no newline) fails with                *)
(* OversizedRecordError.                                                   *)
(***************************************************************************)
AtOversizedRecord(r) ==
    /\ run_files[r] \in DOMAIN fs
    /\ LET raw == RawRead(fs[run_files[r]], readers[r], block_size) IN
       raw # <<>> /\ FindNL(raw, 1) = 0

C8_OversizedRecordError ==
    (/\ pc = "failed"
     /\ err # "OSError"
     /\ \E r \in 1..Len(readers) : r <= Len(run_files) /\ AtOversizedRecord(r))
        => err = "OversizedRecordError"

(***************************************************************************)
(* C9.  When run generation produced exactly one run, no merge pass takes  *)
(* place (the merger and the removal loop are entered only with more than  *)
(* one generated run) and the sort ends with that run, the sorted input,   *)
(* as the only file, at the output destination.                            *)
(***************************************************************************)
C9_SingleRun ==
    /\ pc \in {"for_batch", "seed", "heap_loop", "os_remove"} => index > 2
    /\ (pc = "DONE" /\ index = 2) =>
            /\ iteration = 1
            /\ new_runs = <<>>
            /\ runs = <<RunName(1)>>
            /\ DOMAIN fs = {OutputPath}
            /\ fs[OutputPath] = FileText(ListSort(InputRecords))

\* a completed sort of a single run whose records came out of order
C9_Witness ==
    /\ pc = "DONE"
    /\ index = 2
    /\ Len(input) >= 2
    /\ ~NonDecreasing(InputRecords)

(***************************************************************************)
(* C10.  An execution that ended in an error has no file at the output     *)
(* destination: the destination exists only once the sort is DONE, after   *)
(* the last pass.                                                          *)
(***************************************************************************)
C10_NoOutputOnError ==
    /\ pc = "failed" => OutputPath \notin DOMAIN fs
    /\ OutputPath \in DOMAIN fs =>
            /\ pc = "DONE"
            /\ err = "none"
            /\ run_files = <<>>
            /\ Len(runs) = 1

\* a merge failed after it had written part of its output
C10_Witness ==
    /\ pc = "failed"
    /\ err = "IndexError"
    /\ \E n \in DOMAIN fs : IsMergedFile(n) /\ fs[n] # <<>>

(***************************************************************************)
(* C11.  When the sort is DONE, exactly one run survives and it is at the  *)
(* output destination: every generated run and every merged run that a     *)
(* pass consumed is gone from the disk, and no other file remains.         *)
(***************************************************************************)
C11_OneSurvivor ==
    pc = "DONE" =>
        /\ Len(runs) = 1
        /\ DOMAIN fs = {OutputPath}
        /\ \A k \in 1..(index - 1) : RunName(k) \notin DOMAIN fs
        /\ \A n \in DOMAIN fs : ~IsRunFile(n) /\ ~IsMergedFile(n)

\* a sort that is DONE after two passes over three generated runs
C11_Witness ==
    /\ pc = "DONE"
    /\ iteration = 3
    /\ index = 4

(***************************************************************************)
(* C12.  A run of the old frontier is deleted only in the removal loop     *)
(* that follows the batches of the pass: every batch then has its merged   *)
(* run on disk, written and closed (no merge in progress), the merged run  *)
(* of the deleted run's batch holds the records of that batch, and the     *)
(* run deleted is the next one of the frontier, was not deleted before     *)
(* and is no run a batch has yet to read.                                  *)
(***************************************************************************)
\* the number of batches of a pass over n runs with fan-in k
Batches(n, k) == (n + k - 1) \div k

\* the runs of batch b (1-based) of the frontier
Group(b) == SubSeq(runs, (b - 1) * K + 1, Min(b * K, Len(runs)))

\* the batch the run at position k (1-based) of the frontier belongs to
BatchOf(k) == ((k - 1) \div K) + 1

DeletionInOrder ==
    (\E n \in DOMAIN fs : n \notin DOMAIN fs' /\ pc' # "DONE") =>
        /\ pc = "os_remove"
        /\ run_files = <<>>
        /\ removed < Len(runs)
        /\ DOMAIN fs \ DOMAIN fs' = {runs[removed + 1]}
        /\ \A k \in 1..removed : runs[k] # runs[removed + 1] /\ runs[k] \notin DOMAIN fs
        /\ \A k \in (removed + 1)..Len(runs) : runs[k] \in DOMAIN fs
        /\ Len(new_runs) = Batches(Len(runs), K)
        /\ \A b \in 1..Len(new_runs) :
                new_runs[b] \in DOMAIN fs' /\ fs'[new_runs[b]] = fs[new_runs[b]]
        /\ LET b == BatchOf(removed + 1) IN
           (\A k \in 1..Len(Group(b)) : Group(b)[k] \in DOMAIN fs) =>
                SeqToBag(FileRecords(fs[new_runs[b]])) = SeqToBag(RecordsOf(Group(b)))

C12_DeleteAfterWrite == [][DeletionInOrder]_vars

\* the removal loop at work after a pass of two batches
C12_Witness ==
    /\ pc = "os_remove"
    /\ removed >= 1
    /\ removed < Len(runs)
    /\ Len(new_runs) = 2

(***************************************************************************)
(* C13.  No file is written while it is read, and none is read twice at    *)
(* once: the name a merge writes to is no run of the frontier, no earlier  *)
(* output of the pass and no file that exists when the merge opens it;     *)
(* the runs of a batch, of the frontier and of the outputs of a pass are   *)
(* pairwise distinct; and the name of the next generated run is new.       *)
(***************************************************************************)
Distinct(names) ==
    \A p, q \in 1..Len(names) : p # q => names[p] # names[q]

Occurs(name, names) == \E p \in 1..Len(names) : names[p] = name

C13_OneReaderOrWriter ==
    /\ Distinct(runs) /\ Distinct(new_runs) /\ Distinct(run_files)
    /\ pc = "generate_runs" =>
            /\ RunName(index) \notin DOMAIN fs
            /\ ~Occurs(RunName(index), runs)
    /\ Merging =>
            /\ ~Occurs(output_file, runs)
            /\ ~Occurs(output_file, run_files)
            /\ ~Occurs(output_file, new_runs)
            /\ \A r \in 1..Len(run_files) : Occurs(run_files[r], runs)
    /\ pc = "seed" => output_file \notin DOMAIN fs
    /\ pc = "heap_loop" =>
            /\ output_file \in DOMAIN fs
            /\ \A r \in 1..Len(run_files) : run_files[r] \in DOMAIN fs

\* the second batch of the second pass is being merged: the frontier and
\* an earlier output of the pass are merged runs themselves
C13_Witness ==
    /\ pc = "heap_loop"
    /\ iteration = 2
    /\ new_runs # <<>>
    /\ fs[output_file] # <<>>

(***************************************************************************)
(* C14.  A pass over n > 1 runs with fan-in K >= 1 merges the frontier in  *)
(* consecutive groups of K runs (the last one possibly smaller), one call  *)
(* of merge_K_runs per group in group order; when its batches are done     *)
(* there are ceil(n / K) merged runs, the b-th named after the pass and b  *)
(* and holding exactly the records of group b; they are the next frontier. *)
(***************************************************************************)
C14_PassPartition ==
    /\ Merging =>
            /\ i = Len(new_runs) * K
            /\ run_files = Group(Len(new_runs) + 1)
            /\ run_files # <<>>
            /\ output_file = MergedName(iteration, Len(new_runs) + 1)
    /\ pc \in {"for_batch", "seed", "heap_loop"} =>
            \A b \in 1..Len(new_runs) :
                /\ new_runs[b] = MergedName(iteration, b)
                /\ FileRecords(fs[new_runs[b]]) = ListSort(RecordsOf(Group(b)))
    /\ pc = "os_remove" =>
            /\ K >= 1 /\ Len(runs) > 1
            /\ Len(new_runs) = Batches(Len(runs), K)
            /\ Len(new_runs) * K >= Len(runs)
            /\ (Len(new_runs) - 1) * K < Len(runs)
            /\ \A b \in 1..Len(new_runs) : new_runs[b] = MergedName(iteration, b)
    /\ (pc = "merge_runs" /\ iteration > 1) =>
            /\ runs = new_runs
            /\ \A b \in 1..Len(runs) : runs[b] = MergedName(iteration - 1, b)

\* the batches of a pass over three runs with fan-in two are done
C14_Witness ==
    /\ pc = "os_remove"
    /\ removed = 0
    /\ K = 2
    /\ Len(runs) = 3
    /\ Len(new_runs) = 2
    /\ Len(FileRecords(fs[new_runs[1]])) = 2
    /\ Len(FileRecords(fs[new_runs[2]])) = 1

(***************************************************************************)
(* C15.  read_numbers_and_divide cuts the input into consecutive chunks    *)
(* of exactly max(1, first_limit // NUMBER_SIZE) records, the last one     *)
(* possibly shorter: run k holds the k-th such segment of the input, the   *)
(* runs cover the input, and generate_runs persists each sorted ascending. *)
(***************************************************************************)
\* records per run
Capacity ==
    IF first_limit \div NUMBER_SIZE >= 1 THEN first_limit \div NUMBER_SIZE ELSE 1

\* the records of lines from..to of the input, in input order
InputSegment(from, to) == [p \in 1..(to - from + 1) |-> ParseInt(input[from + p - 1])]

\* the k-th chunk of the input
Chunk(k) == InputSegment((k - 1) * Capacity + 1, Min(k * Capacity, Len(input)))

\* the file of run k holds the k-th chunk, sorted
HoldsChunk(k) ==
    /\ RunName(k) \in DOMAIN fs
    /\ NonDecreasing(FileRecords(fs[RunName(k)]))
    /\ SeqToBag(FileRecords(fs[RunName(k)])) = SeqToBag(Chunk(k))

C15_MaximalChunks ==
    /\ pc = "generate_runs" =>
            /\ Len(runs) = index - 1
            /\ \A k \in 1..Len(runs) :
                    /\ runs[k] = RunName(k)
                    /\ HoldsChunk(k)
                    /\ Len(FileRecords(fs[RunName(k)])) = Capacity
            /\ run = InputSegment(Len(runs) * Capacity + 1, pos)
            /\ Len(run) <= Capacity
    /\ (pc \in {"merge_runs", "for_batch", "seed", "heap_loop"} /\ iteration = 1) =>
            /\ Len(runs) = index - 1
            /\ Len(runs) = (Len(input) + Capacity - 1) \div Capacity
            /\ \A k \in 1..Len(runs) : runs[k] = RunName(k) /\ HoldsChunk(k)
            /\ \A k \in 1..(Len(runs) - 1) :
                    Len(FileRecords(fs[RunName(k)])) = Capacity

\* generation ended with a full run, given out of order, and a shorter last run
C15_Witness ==
    /\ pc = "merge_runs"
    /\ iteration = 1
    /\ Capacity = 2
    /\ Len(input) = 3
    /\ Len(runs) = 2
    /\ ~NonDecreasing(Chunk(1))

(***************************************************************************)
(* C16.  In merge_K_runs the heap holds at most one entry per run of the   *)
(* batch (so at most K entries); a run has no entry only when its queue    *)
(* is empty and its reader is at the end of its file, and then all its     *)
(* records are written: the records written, in the heap, in the queues    *)
(* and still unread are together the records of the batch.  So the loop    *)
(* ends, with an empty heap, only with every run read and written whole.   *)
(***************************************************************************)
HasEntry(r) == \E e \in 1..Len(heap) : heap[e][2] = r - 1

HeapRecords == [e \in 1..Len(heap) |-> heap[e][1]]

\* the records of run r of the batch that its reader has not read yet
Unread(r) ==
    FileRecords(SubSeq(fs[run_files[r]], readers[r] + 1, Len(fs[run_files[r]])))

Exhausted(r) == current_blocks[r] = <<>> /\ readers[r] = Len(fs[run_files[r]])

C16_HeapEntries ==
    /\ Merging =>
            /\ \A e, f \in 1..Len(heap) : e # f => heap[e][2] # heap[f][2]
            /\ \A e \in 1..Len(heap) : heap[e][2] \in 0..(Len(run_files) - 1)
            /\ Len(heap) <= Len(run_files)
            /\ Len(heap) <= K
    /\ pc = "seed" =>
            /\ Len(heap) = reader_index
            /\ \A r \in 1..reader_index : HasEntry(r)
    /\ pc = "heap_loop" =>
            /\ Len(current_blocks) = Len(run_files)
            /\ \A r \in 1..Len(run_files) : ~HasEntry(r) => Exhausted(r)
            /\ SeqToBag(FileRecords(fs[output_file]) \o HeapRecords
                        \o Concat(current_blocks)
                        \o Concat([r \in 1..Len(run_files) |-> Unread(r)]))
                    = SeqToBag(RecordsOf(run_files))
            /\ heap = <<>> =>
                    /\ \A r \in 1..Len(run_files) : Exhausted(r)
                    /\ SeqToBag(FileRecords(fs[output_file])) = SeqToBag(RecordsOf(run_files))

\* a merge of several runs where one run is written whole and has left the
\* heap while another still has its entry
C16_Witness ==
    /\ pc = "heap_loop"
    /\ Len(run_files) >= 2
    /\ Len(heap) = 1
    /\ \E r \in 1..Len(run_files) : ~HasEntry(r) /\ Exhausted(r)
    /\ \E r \in 1..Len(run_files) : HasEntry(r) /\ ~Exhausted(r)

(***************************************************************************)
(* C17.  In merge_K_runs the records of a run that are in memory (its heap *)
(* entry and its queue) are the tail of one block: serialized they take    *)
(* at most block_size characters and are the text of the run's file that   *)
(* ends at the reader's cursor.  A run longer than a block is never in     *)
(* memory whole.                                                           *)
(***************************************************************************)
\* the records of run r of the batch held in memory
Resident(r) ==
    LET own == SelectSeq(heap, LAMBDA e : e[2] = r - 1) IN
    [e \in 1..Len(own) |-> own[e][1]] \o current_blocks[r]

OneBlockResident(r) ==
    LET text == FileText(Resident(r))
        file == fs[run_files[r]]
    IN  /\ Len(text) <= block_size
        /\ Len(text) <= readers[r]
        /\ text = SubSeq(file, readers[r] - Len(text) + 1, readers[r])
        /\ Len(file) > block_size => Resident(r) # FileRecords(file)

C17_OneBlockPerRun ==
    Merging => \A r \in 1..Len(current_blocks) : OneBlockResident(r)

\* a merge holds the second block of a run longer than a block, and more
\* than one record of another run
C17_Witness ==
    /\ pc = "heap_loop"
    /\ \E r \in 1..Len(run_files) :
            /\ Len(fs[run_files[r]]) > block_size
            /\ readers[r] = Len(fs[run_files[r]])
            /\ HasEntry(r)
    /\ \E r \in 1..Len(run_files) : HasEntry(r) /\ current_blocks[r] # <<>>

(***************************************************************************)
(* C18.  If a line of the input does not convert to an integer, run        *)
(* generation fails at the first such line with the conversion error: no   *)
(* line after it is read, the runs on disk are the full chunks of the      *)
(* lines before it and nothing else, and merge_runs is never entered (no   *)
(* merge, no removal, no rename).                                          *)
(***************************************************************************)
BadLines == {p \in 1..Len(input) : ~IsInt(input[p])}

FirstBad == CHOOSE p \in BadLines : \A q \in BadLines : p <= q

C18_ParseErrorAborts ==
    BadLines # {} =>
        /\ pc \in {"generate_runs", "failed"}
        /\ err \in {"none", "ValueError", "OSError"}
        /\ pos <= FirstBad
        /\ (pc = "failed" /\ err = "ValueError") =>
                /\ pos = FirstBad
                /\ index - 1 = (FirstBad - 1) \div Capacity
        /\ pc = "failed" => ~ENABLED Next
        /\ index - 1 <= (FirstBad - 1) \div Capacity
        /\ DOMAIN fs = {RunName(k) : k \in 1..(index - 1)}
        /\ \A k \in 1..(index - 1) : HoldsChunk(k)
        /\ iteration = 1 /\ new_runs = <<>> /\ run_files = <<>> /\ removed = 0

\* generation failed at a line that is not the last one, with a record in
\* the buffer that no run will hold
C18_Witness ==
    /\ pc = "failed"
    /\ err = "ValueError"
    /\ pos < Len(input)
    /\ run # <<>>
    /\ fs = <<>>

====
